---- MODULE Spec2Model ----
(***************************************************************************)
(* The ledger of the personal finance tracker: accounts, transactions and  *)
(* transfers between accounts, as the Django models and their entry points *)
(* (the admin site, the REST viewsets) mutate them.                        *)
(*                                                                         *)
(* Money is counted in cents (DecimalField, decimal_places=2) and exchange *)
(* rates in hundredths; Decimal arithmetic is exact, and the inputs drawn  *)
(* here all have products that are whole cents.                            *)
(***************************************************************************)
EXTENDS Integers, FiniteSets, Sequences, TLC

VARIABLES
    accounts,     \* Account rows: id -> row or NoRow
    transactions, \* Transaction rows: id -> row or NoRow
    transfers,    \* AccountTransfer rows: id -> row or NoRow
    nextTx,       \* number of Transaction ids handed out (uuid4: never reused)
    nextTransfer, \* number of AccountTransfer ids handed out (AutoField)
    resaves,      \* number of saves of already persisted rows so far
    last,         \* the last request: what was asked and how it ended
    pc,           \* request process -> its position inside a save()
    local,        \* request process -> the model instances it holds in memory
    goals,            \* FinancialGoal rows: id -> row or NoRow
    contributions,    \* GoalContribution rows: id -> row or NoRow
    budgets,          \* Budget rows: id -> row or NoRow
    budgetCategories, \* BudgetCategory rows: id -> row or NoRow
    returned,         \* the last call of a model method and what it gave
    categories,       \* Category rows: id -> row or NoRow
    templates         \* CategoryTemplate rows: id -> row

vars == <<accounts, transactions, transfers, nextTx, nextTransfer, resaves, last, pc, local,
          goals, contributions, budgets, budgetCategories, returned, categories, templates>>

---------------------------------------------------------------------------
(* Bounds of the model *)

MaxAccounts == 2
MaxTx == 1
MaxTransfers == 1
MaxResaves == 1
\* request processes running at once in the step-level specification
MaxRequests == 2
MaxGoals == 1
MaxContributions == 2
MaxBudgets == 1
MaxBudgetCategories == 2
MaxCategories == 2
MaxTemplates == 1
MaxApplications == 3

(* Program constants *)

\* MinValueValidator(Decimal('0.01')) of Transaction.amount and
\* AccountTransfer.amount, in cents
MinAmount == 1
\* exchange_rate is counted in hundredths: 90 is Decimal('0.90')
RateScale == 100
\* default=0 of Account.current_balance
DefaultBalance == 0
\* default=0 of FinancialGoal.current_amount
DefaultCurrentAmount == 0
\* default=0 of Budget.total_spent
DefaultTotalSpent == 0

\* no save() reads an owner: one user is enough for the ledger
Users == {"u1"}
Procs == 1..MaxRequests
AccountIds == 1..MaxAccounts
TxIds == 1..MaxTx
TransferIds == 1..MaxTransfers

TRANSACTION_TYPES == {"income", "expense", "transfer"}
\* of STATUS_CHOICES; 'failed' and 'cancelled' are read by no code path, and
\* are left out as inputs
STATUS_CHOICES == {"pending", "completed"}

\* request inputs
InitialBalances == {0, 10000}
Amounts == {-3000, 0, 3000, 5000}
Rates == {90, 100}
\* converted_amount values a client may put in its request body
SuppliedConverted == {4500, 99900}

NoRow == [exists |-> FALSE]
NoRequest ==
    [op |-> "none", result |-> "none", amount |-> 0, id |-> 0, supplied |-> 0,
     user |-> "none", name |-> "none"]
NoResult ==
    [fn |-> "none", id |-> 0, raised |-> FALSE, bool |-> FALSE, num |-> 0, den |-> 1, today |-> 0,
     user |-> "none", rows |-> {}]

\* no goal, no budget and no call yet
NoPlan ==
    /\ goals = <<>>
    /\ contributions = <<>>
    /\ budgets = <<>>
    /\ budgetCategories = <<>>
    /\ returned = NoResult
    /\ categories = <<>>
    /\ templates = <<>>

Exists(row) == row.exists

AccountRows == {a \in DOMAIN accounts : Exists(accounts[a])}
TxRows == {i \in DOMAIN transactions : Exists(transactions[i])}
TransferRows == {i \in DOMAIN transfers : Exists(transfers[i])}

---------------------------------------------------------------------------
(* Pure parts of the models *)

\* Account.update_balance: the new current_balance
update_balance(current_balance, amount, transaction_type) ==
    IF transaction_type = "income"
    THEN current_balance + amount
    ELSE current_balance - amount

\* a save() that credits income only
EffectiveAmount_IncomeOnly(amount, transaction_type) ==
    IF transaction_type = "income" THEN amount ELSE -amount

\* Transaction.save: effective_amount
EffectiveAmount(amount, transaction_type) ==
    IF transaction_type = "expense" THEN -amount ELSE amount

\* a save() that takes the amount over unconverted
ConvertedAmount_Unconverted(amount, exchange_rate) == amount

\* AccountTransfer.save: converted_amount = amount * exchange_rate
ConvertedAmount(amount, exchange_rate) == (amount * exchange_rate) \div RateScale

\* a validator that lets a zero amount through
AmountValid_ZeroAllowed(amount) == amount >= 0

\* the field validators a ModelForm or a ModelSerializer runs before save()
AmountValid(amount) == amount >= MinAmount

---------------------------------------------------------------------------
(* Whole requests, one after another *)

Request(op, result, amount, id) ==
    [NoRequest EXCEPT !.op = op, !.result = result, !.amount = amount, !.id = id]

\* the steps of the sequential specification leave the request processes
\* alone, and the ledger's requests leave goals and budgets alone
Sequential ==
    UNCHANGED <<pc, local, goals, contributions, budgets, budgetCategories, returned,
                categories, templates>>

\* AccountViewSet.perform_create / the admin's add form: current_balance is
\* read-only in both, so a new row gets the field's default
CreateAccount(a, u, initial_balance) ==
    /\ ~Exists(accounts[a])
    /\ \A b \in AccountIds : b < a => Exists(accounts[b])
    /\ accounts' = [accounts EXCEPT ![a] =
            [exists |-> TRUE, owner |-> u,
             initial_balance |-> initial_balance,
             current_balance |-> DefaultBalance]]
    /\ last' = Request("create_account", "ok", 0, a)
    /\ UNCHANGED <<transactions, transfers, nextTx, nextTransfer, resaves>>
    /\ Sequential

\* a save() that takes the snapshot before it updates the account
TransactionSave_SnapshotFirst(id, a, amount, transaction_type, status) ==
    LET balance == update_balance(accounts[a].current_balance, amount, transaction_type)
    IN  /\ accounts' = [accounts EXCEPT ![a].current_balance = balance]
        /\ transactions' = [transactions EXCEPT ![id] =
                [exists |-> TRUE, account |-> a, amount |-> amount,
                 transaction_type |-> transaction_type, status |-> status,
                 effective_amount |-> EffectiveAmount(amount, transaction_type),
                 balance_after |-> accounts[a].current_balance]]

\* Transaction.save on the row `id` with the given field values: the account
\* instance is updated and saved, then the row is written
TransactionSave(id, a, amount, transaction_type, status) ==
    LET balance == update_balance(accounts[a].current_balance, amount, transaction_type)
    IN  /\ accounts' = [accounts EXCEPT ![a].current_balance = balance]
        /\ transactions' = [transactions EXCEPT ![id] =
                [exists |-> TRUE, account |-> a, amount |-> amount,
                 transaction_type |-> transaction_type, status |-> status,
                 effective_amount |-> EffectiveAmount(amount, transaction_type),
                 balance_after |-> balance]]

\* an add form that answers a repeated input with the row it already has
RecordTransaction_Dedup(a, amount, transaction_type, status) ==
    /\ Exists(accounts[a])
    /\ nextTx + 1 \in DOMAIN transactions
    /\ LET same == {i \in TxRows :
                        /\ transactions[i].account = a
                        /\ transactions[i].amount = amount
                        /\ transactions[i].transaction_type = transaction_type
                        /\ transactions[i].status = status}
       IN  IF ~AmountValid(amount)
           THEN /\ last' = Request("record", "ValidationError", amount, 0)
                /\ UNCHANGED <<accounts, transactions, nextTx>>
           ELSE IF same # {}
           THEN /\ last' = Request("record", "ok", amount, CHOOSE i \in same : TRUE)
                /\ UNCHANGED <<accounts, transactions, nextTx>>
           ELSE /\ TransactionSave(nextTx + 1, a, amount, transaction_type, status)
                /\ nextTx' = nextTx + 1
                /\ last' = Request("record", "ok", amount, nextTx + 1)
    /\ UNCHANGED <<transfers, nextTransfer, resaves>>
    /\ Sequential

\* the admin's add form for Transaction: field validation, then save()
RecordTransaction(a, amount, transaction_type, status) ==
    /\ Exists(accounts[a])
    /\ nextTx + 1 \in DOMAIN transactions
    /\ IF AmountValid(amount)
       THEN /\ TransactionSave(nextTx + 1, a, amount, transaction_type, status)
            /\ nextTx' = nextTx + 1
            /\ last' = Request("record", "ok", amount, nextTx + 1)
       ELSE /\ last' = Request("record", "ValidationError", amount, 0)
            /\ UNCHANGED <<accounts, transactions, nextTx>>
    /\ UNCHANGED <<transfers, nextTransfer, resaves>>
    /\ Sequential

\* AccountTransfer.save on the row `id`: converted_amount is recomputed, the two
\* account instances the transfer holds (each read when the request was
\* deserialised, so two instances even when both name one row) are changed
\* and saved in turn, then the row is written
TransferSave(id, u, from_account, to_account, amount, exchange_rate) ==
    LET converted_amount == ConvertedAmount(amount, exchange_rate)
        from_balance == accounts[from_account].current_balance - amount
        to_balance == accounts[to_account].current_balance + converted_amount
    IN  /\ accounts' = [accounts EXCEPT ![from_account].current_balance = from_balance,
                                        ![to_account].current_balance = to_balance]
        /\ transfers' = [transfers EXCEPT ![id] =
                [exists |-> TRUE, user |-> u,
                 from_account |-> from_account, to_account |-> to_account,
                 amount |-> amount, exchange_rate |-> exchange_rate,
                 converted_amount |-> converted_amount]]

\* AccountTransferViewSet.create: serializer validation (converted_amount is
\* read-only: the value in the request body never reaches the instance), then
\* perform_create -> serializer.save(user=request.user) -> AccountTransfer.save
CreateTransfer(u, from_account, to_account, amount, exchange_rate, supplied) ==
    /\ Exists(accounts[from_account])
    /\ Exists(accounts[to_account])
    /\ nextTransfer < MaxTransfers
    /\ IF AmountValid(amount)
       THEN /\ TransferSave(nextTransfer + 1, u, from_account, to_account, amount, exchange_rate)
            /\ nextTransfer' = nextTransfer + 1
            /\ last' = [Request("transfer", "ok", amount, nextTransfer + 1)
                            EXCEPT !.supplied = supplied]
       ELSE /\ last' = [Request("transfer", "ValidationError", amount, 0)
                            EXCEPT !.supplied = supplied]
            /\ UNCHANGED <<accounts, transfers, nextTransfer>>
    /\ UNCHANGED <<transactions, nextTx, resaves>>
    /\ Sequential

\* the admin's change form for Transaction: the row is loaded, its status is
\* set from the form (the other fields are sent back as they were) and the
\* instance is saved again
ResaveTransaction(id, status) ==
    /\ Exists(transactions[id])
    /\ resaves < MaxResaves
    /\ LET t == transactions[id]
       IN  TransactionSave(id, t.account, t.amount, t.transaction_type, status)
    /\ resaves' = resaves + 1
    /\ last' = Request("resave_transaction", "ok", transactions[id].amount, id)
    /\ UNCHANGED <<transfers, nextTx, nextTransfer>>
    /\ Sequential

\* AccountTransferViewSet.partial_update of the description: the row is loaded
\* (select_related on both accounts) and the instance is saved again
ResaveTransfer(id) ==
    /\ Exists(transfers[id])
    /\ resaves < MaxResaves
    /\ LET t == transfers[id]
       IN  TransferSave(id, t.user, t.from_account, t.to_account, t.amount, t.exchange_rate)
    /\ resaves' = resaves + 1
    /\ last' = Request("resave_transfer", "ok", transfers[id].amount, id)
    /\ UNCHANGED <<transactions, nextTx, nextTransfer>>
    /\ Sequential

\* the admin's change form for Transaction with amount and type edited: field
\* validation, then save() of the loaded instance
ChangeTransaction(id, amount, transaction_type) ==
    /\ Exists(transactions[id])
    /\ resaves < MaxResaves
    /\ IF AmountValid(amount)
       THEN /\ LET t == transactions[id]
               IN  TransactionSave(id, t.account, amount, transaction_type, t.status)
            /\ resaves' = resaves + 1
            /\ last' = Request("change_transaction", "ok", amount, id)
       ELSE /\ last' = Request("change_transaction", "ValidationError", amount, id)
            /\ UNCHANGED <<accounts, transactions, resaves>>
    /\ UNCHANGED <<transfers, nextTx, nextTransfer>>
    /\ Sequential

\* AccountTransferViewSet.partial_update of amount and exchange_rate: serializer
\* validation, the fields are set on the loaded instance, then save()
ChangeTransfer(id, amount, exchange_rate) ==
    /\ Exists(transfers[id])
    /\ resaves < MaxResaves
    /\ IF AmountValid(amount)
       THEN /\ LET t == transfers[id]
               IN  TransferSave(id, t.user, t.from_account, t.to_account, amount, exchange_rate)
            /\ resaves' = resaves + 1
            /\ last' = Request("change_transfer", "ok", amount, id)
       ELSE /\ last' = Request("change_transfer", "ValidationError", amount, id)
            /\ UNCHANGED <<accounts, transfers, resaves>>
    /\ UNCHANGED <<transactions, nextTx, nextTransfer>>
    /\ Sequential

\* the admin's delete of a Transaction: Model.delete is not overridden and no
\* signal is connected, the row goes and nothing else changes
DeleteTransaction(id) ==
    /\ Exists(transactions[id])
    /\ transactions' = [transactions EXCEPT ![id] = NoRow]
    /\ last' = Request("delete_transaction", "ok", 0, id)
    /\ UNCHANGED <<accounts, transfers, nextTx, nextTransfer, resaves>>
    /\ Sequential

\* AccountTransferViewSet.destroy: likewise
DeleteTransfer(id) ==
    /\ Exists(transfers[id])
    /\ transfers' = [transfers EXCEPT ![id] = NoRow]
    /\ last' = Request("delete_transfer", "ok", 0, id)
    /\ UNCHANGED <<accounts, transactions, nextTx, nextTransfer, resaves>>
    /\ Sequential

RECURSIVE SumAmounts(_)
\* sum(t.amount for t in ...) over a set of Transaction ids
SumAmounts(ids) ==
    IF ids = {} THEN 0
    ELSE LET i == CHOOSE j \in ids : TRUE
         IN  transactions[i].amount + SumAmounts(ids \ {i})

\* Transaction.objects.filter(account=account, status='completed') of one type
CompletedOfType(a, transaction_type) ==
    {i \in TxRows : /\ transactions[i].account = a
                    /\ transactions[i].status = "completed"
                    /\ transactions[i].transaction_type = transaction_type}

\* the admin action recalculate_balances on one account of the queryset
RecalculateBalances(a) ==
    /\ Exists(accounts[a])
    /\ LET total_income == SumAmounts(CompletedOfType(a, "income"))
           total_expense == SumAmounts(CompletedOfType(a, "expense"))
       IN  accounts' = [accounts EXCEPT ![a].current_balance =
                            accounts[a].initial_balance + total_income - total_expense]
    /\ last' = Request("recalculate_balances", "ok", 0, a)
    /\ UNCHANGED <<transactions, transfers, nextTx, nextTransfer, resaves>>
    /\ Sequential

---------------------------------------------------------------------------
(* The same save() methods step by step, for requests that run at once.    *)
(* Nothing in the source opens a transaction (no transaction.atomic, no    *)
(* select_for_update, no F() on a balance): every Model.save() is its own  *)
(* committed statement, and a request that fails undoes nothing.           *)

NoLocal ==
    [kind |-> "none", account |-> 0, to_account |-> 0, amount |-> 0,
     transaction_type |-> "none", status |-> "none", exchange_rate |-> 0,
     balance |-> 0, to_balance |-> 0, before |-> 0, to_before |-> 0]

\* the step-level actions leave the request log and the re-save count alone,
\* and goals and budgets
Stepwise ==
    UNCHANGED <<last, resaves, goals, contributions, budgets, budgetCategories, returned,
                categories, templates>>

\* a Transaction add form is validated: the Account instance the new
\* transaction refers to is read from the database
TxBegin(p, a, amount, transaction_type, status) ==
    /\ pc[p] = "idle"
    /\ Exists(accounts[a])
    /\ AmountValid(amount)
    /\ local' = [local EXCEPT ![p] =
            [NoLocal EXCEPT !.kind = "transaction", !.account = a, !.amount = amount,
                            !.transaction_type = transaction_type, !.status = status,
                            !.balance = accounts[a].current_balance,
                            !.before = accounts[a].current_balance]]
    /\ pc' = [pc EXCEPT ![p] = "tx_loaded"]
    /\ UNCHANGED <<accounts, transactions, transfers, nextTx, nextTransfer>>
    /\ Stepwise

\* Transaction.save, self.account.update_balance(...): the instance's balance
\* is changed in memory and Account.save() writes it
TxUpdateBalance(p) ==
    /\ pc[p] = "tx_loaded"
    /\ LET l == local[p]
           balance == update_balance(l.balance, l.amount, l.transaction_type)
       IN  /\ accounts' = [accounts EXCEPT ![l.account].current_balance = balance]
           /\ local' = [local EXCEPT ![p].balance = balance]
    /\ pc' = [pc EXCEPT ![p] = "tx_account_saved"]
    /\ UNCHANGED <<transactions, transfers, nextTx, nextTransfer>>
    /\ Stepwise

\* a save() that inserts the row first and leaves the balance for later
TxInsert_RowFirst(p) ==
    /\ pc[p] = "tx_loaded"
    /\ nextTx < MaxRequests
    /\ LET l == local[p]
       IN  transactions' = [transactions EXCEPT ![nextTx + 1] =
                [exists |-> TRUE, account |-> l.account, amount |-> l.amount,
                 transaction_type |-> l.transaction_type, status |-> l.status,
                 effective_amount |-> EffectiveAmount(l.amount, l.transaction_type),
                 balance_after |-> l.balance]]
    /\ nextTx' = nextTx + 1
    /\ pc' = [pc EXCEPT ![p] = "done"]
    /\ UNCHANGED <<accounts, transfers, nextTransfer, local>>
    /\ Stepwise

\* Transaction.save, balance_after = ... and super().save(): the row is inserted
TxInsert(p) ==
    /\ pc[p] = "tx_account_saved"
    /\ nextTx < MaxRequests
    /\ LET l == local[p]
       IN  transactions' = [transactions EXCEPT ![nextTx + 1] =
                [exists |-> TRUE, account |-> l.account, amount |-> l.amount,
                 transaction_type |-> l.transaction_type, status |-> l.status,
                 effective_amount |-> EffectiveAmount(l.amount, l.transaction_type),
                 balance_after |-> l.balance]]
    /\ nextTx' = nextTx + 1
    /\ pc' = [pc EXCEPT ![p] = "done"]
    /\ UNCHANGED <<accounts, transfers, nextTransfer, local>>
    /\ Stepwise

\* an AccountTransfer create request is deserialised: both Account instances
\* are read from the database
TrBegin(p, from_account, to_account, amount, exchange_rate) ==
    /\ pc[p] = "idle"
    /\ Exists(accounts[from_account])
    /\ Exists(accounts[to_account])
    /\ from_account # to_account
    /\ AmountValid(amount)
    /\ local' = [local EXCEPT ![p] =
            [NoLocal EXCEPT !.kind = "transfer", !.account = from_account,
                            !.to_account = to_account, !.amount = amount,
                            !.exchange_rate = exchange_rate,
                            !.balance = accounts[from_account].current_balance,
                            !.before = accounts[from_account].current_balance,
                            !.to_balance = accounts[to_account].current_balance,
                            !.to_before = accounts[to_account].current_balance]]
    /\ pc' = [pc EXCEPT ![p] = "tr_loaded"]
    /\ UNCHANGED <<accounts, transactions, transfers, nextTx, nextTransfer>>
    /\ Stepwise

\* AccountTransfer.save: from_account.current_balance -= amount; from_account.save()
TrSaveFrom(p) ==
    /\ pc[p] = "tr_loaded"
    /\ LET l == local[p]
           balance == l.balance - l.amount
       IN  /\ accounts' = [accounts EXCEPT ![l.account].current_balance = balance]
           /\ local' = [local EXCEPT ![p].balance = balance]
    /\ pc' = [pc EXCEPT ![p] = "tr_from_saved"]
    /\ UNCHANGED <<transactions, transfers, nextTx, nextTransfer>>
    /\ Stepwise

\* AccountTransfer.save: to_account.current_balance += converted_amount; to_account.save()
TrSaveTo(p) ==
    /\ pc[p] = "tr_from_saved"
    /\ LET l == local[p]
           balance == l.to_balance + ConvertedAmount(l.amount, l.exchange_rate)
       IN  /\ accounts' = [accounts EXCEPT ![l.to_account].current_balance = balance]
           /\ local' = [local EXCEPT ![p].to_balance = balance]
    /\ pc' = [pc EXCEPT ![p] = "tr_to_saved"]
    /\ UNCHANGED <<transactions, transfers, nextTx, nextTransfer>>
    /\ Stepwise

\* AccountTransfer.save: super().save(): the row is inserted
TrInsert(p) ==
    /\ pc[p] = "tr_to_saved"
    /\ nextTransfer < MaxRequests
    /\ LET l == local[p]
       IN  transfers' = [transfers EXCEPT ![nextTransfer + 1] =
                [exists |-> TRUE, user |-> "u1",
                 from_account |-> l.account, to_account |-> l.to_account,
                 amount |-> l.amount, exchange_rate |-> l.exchange_rate,
                 converted_amount |-> ConvertedAmount(l.amount, l.exchange_rate)]]
    /\ nextTransfer' = nextTransfer + 1
    /\ pc' = [pc EXCEPT ![p] = "done"]
    /\ UNCHANGED <<accounts, transactions, nextTx, local>>
    /\ Stepwise

\* a statement of save() raises (a database error) or the process stops: the
\* request ends there and what it has written stays written
Fail(p) ==
    /\ pc[p] \in {"tx_account_saved", "tr_from_saved", "tr_to_saved"}
    /\ pc' = [pc EXCEPT ![p] = "failed"]
    /\ UNCHANGED <<accounts, transactions, transfers, nextTx, nextTransfer, local>>
    /\ Stepwise

Init ==
    /\ accounts = [a \in AccountIds |-> NoRow]
    /\ transactions = [i \in TxIds |-> NoRow]
    /\ transfers = [i \in TransferIds |-> NoRow]
    /\ nextTx = 0
    /\ nextTransfer = 0
    /\ resaves = 0
    /\ last = NoRequest
    /\ pc = <<>>
    /\ local = <<>>
    /\ NoPlan

Next ==
    \/ \E a \in AccountIds, u \in Users, b \in InitialBalances : CreateAccount(a, u, b)
    \/ \E a \in AccountIds, amount \in Amounts, ty \in TRANSACTION_TYPES, st \in STATUS_CHOICES :
            RecordTransaction(a, amount, ty, st)
    \/ \E id \in TxIds, st \in STATUS_CHOICES : ResaveTransaction(id, st)
    \/ \E id \in TxIds : DeleteTransaction(id)
    \/ \E u \in Users, f \in AccountIds, t \in AccountIds, amount \in Amounts,
          r \in Rates, c \in SuppliedConverted : CreateTransfer(u, f, t, amount, r, c)
    \/ \E id \in TransferIds : ResaveTransfer(id)
    \/ \E id \in TransferIds : DeleteTransfer(id)
    \/ \E a \in AccountIds : RecalculateBalances(a)

Spec == Init /\ [][Next]_vars

\* two accounts as CreateAccount leaves them, and no request under way
StepInit ==
    /\ accounts = [a \in AccountIds |->
            [exists |-> TRUE, owner |-> "u1",
             initial_balance |-> DefaultBalance, current_balance |-> DefaultBalance]]
    /\ transactions = [i \in Procs |-> NoRow]
    /\ transfers = [i \in Procs |-> NoRow]
    /\ nextTx = 0
    /\ nextTransfer = 0
    /\ resaves = 0
    /\ last = NoRequest
    /\ pc = [p \in Procs |-> "idle"]
    /\ local = [p \in Procs |-> NoLocal]
    /\ NoPlan

StepNext ==
    \/ \E p \in Procs, a \in AccountIds, amount \in Amounts, ty \in TRANSACTION_TYPES,
          st \in STATUS_CHOICES : TxBegin(p, a, amount, ty, st)
    \/ \E p \in Procs : TxUpdateBalance(p)
    \/ \E p \in Procs : TxInsert(p)
    \/ \E p \in Procs, f \in AccountIds, t \in AccountIds, amount \in Amounts, r \in Rates :
            TrBegin(p, f, t, amount, r)
    \/ \E p \in Procs : TrSaveFrom(p)
    \/ \E p \in Procs : TrSaveTo(p)
    \/ \E p \in Procs : TrInsert(p)
    \/ \E p \in Procs : Fail(p)

StepSpec == StepInit /\ [][StepNext]_vars

\* transactions recorded and edited: two accounts as CreateAccount leaves them,
\* and room for one transaction more than Spec has, so that an input can be
\* recorded twice
EditTxIds == 1..(MaxTx + 1)

EditInit ==
    /\ accounts = [a \in AccountIds |->
            [exists |-> TRUE, owner |-> "u1",
             initial_balance |-> DefaultBalance, current_balance |-> DefaultBalance]]
    /\ transactions = [i \in EditTxIds |-> NoRow]
    /\ transfers = [i \in TransferIds |-> NoRow]
    /\ nextTx = 0
    /\ nextTransfer = 0
    /\ resaves = 0
    /\ last = NoRequest
    /\ pc = <<>>
    /\ local = <<>>
    /\ NoPlan

EditNext ==
    \/ \E a \in AccountIds, amount \in Amounts, ty \in TRANSACTION_TYPES, st \in STATUS_CHOICES :
            RecordTransaction(a, amount, ty, st)
    \/ \E id \in EditTxIds, amount \in Amounts, ty \in TRANSACTION_TYPES :
            ChangeTransaction(id, amount, ty)

EditSpec == EditInit /\ [][EditNext]_vars

\* the transfers of the same two accounts, created and edited
TransferEditNext ==
    \/ \E u \in Users, f \in AccountIds, t \in AccountIds, amount \in Amounts,
          r \in Rates, c \in SuppliedConverted : CreateTransfer(u, f, t, amount, r, c)
    \/ \E id \in TransferIds, amount \in Amounts, r \in Rates : ChangeTransfer(id, amount, r)

TransferEditSpec == EditInit /\ [][TransferEditNext]_vars

---------------------------------------------------------------------------
(* Goals and budgets: the admin's requests *)

GoalIds == 1..MaxGoals
ContributionIds == 1..MaxContributions
BudgetIds == 1..MaxBudgets
BudgetCategoryIds == 1..MaxBudgetCategories

GoalRows == {g \in DOMAIN goals : Exists(goals[g])}
ContributionRows == {i \in DOMAIN contributions : Exists(contributions[i])}
BudgetRows == {b \in DOMAIN budgets : Exists(budgets[b])}
BudgetCategoryRows == {c \in DOMAIN budgetCategories : Exists(budgetCategories[c])}

ALERT_TYPES == {"none", "80_percent", "90_percent", "100_percent", "custom"}
Categories == {"food", "rent"}

\* custom_alert_percentage is nullable: left blank it is stored as NULL
NoPercentage == [null |-> TRUE, value |-> 0]
Percentage(n) == [null |-> FALSE, value |-> n]

\* form inputs, in cents and in whole percents
TargetAmounts == {500000}
ContributionAmounts == {10000, 25000}
TotalBudgets == {50000, 100000}
AllocatedAmounts == {30000}
SpentAmounts == {0, 20000, 45000}
CustomPercentages == {NoPercentage, Percentage(50), Percentage(95)}

\* the steps on goals and budgets leave the ledger and the categories alone
LedgerUnchanged ==
    UNCHANGED <<accounts, transactions, transfers, nextTx, nextTransfer, resaves, last, pc, local,
                categories, templates>>

\* FinancialGoalAdmin's add form: current_amount is read-only, so a new goal
\* gets the field's default
CreateGoal(g, target_amount) ==
    /\ ~Exists(goals[g])
    /\ AmountValid(target_amount)
    /\ goals' = [goals EXCEPT ![g] =
            [exists |-> TRUE, target_amount |-> target_amount,
             current_amount |-> DefaultCurrentAmount]]
    /\ UNCHANGED <<contributions, budgets, budgetCategories, returned>>
    /\ LedgerUnchanged

\* GoalContributionAdmin's add form or a new line of GoalContributionInline:
\* field validation, then Model.save(), which GoalContribution does not
\* override; no signal is connected, so the goal's row is not written
AddContribution(i, g, amount) ==
    /\ ~Exists(contributions[i])
    /\ Exists(goals[g])
    /\ AmountValid(amount)
    /\ contributions' = [contributions EXCEPT ![i] =
            [exists |-> TRUE, goal |-> g, amount |-> amount]]
    /\ UNCHANGED <<goals, budgets, budgetCategories, returned>>
    /\ LedgerUnchanged

\* the admin's delete of a GoalContribution
DeleteContribution(i) ==
    /\ Exists(contributions[i])
    /\ contributions' = [contributions EXCEPT ![i] = NoRow]
    /\ UNCHANGED <<goals, budgets, budgetCategories, returned>>
    /\ LedgerUnchanged

\* BudgetAdmin's add form: total_spent is read-only, so a new budget gets the
\* field's default; custom_alert_percentage may be left blank whatever the
\* alert_threshold
CreateBudget(b, total_budget, alert_threshold, custom_alert_percentage) ==
    /\ ~Exists(budgets[b])
    /\ AmountValid(total_budget)
    /\ budgets' = [budgets EXCEPT ![b] =
            [exists |-> TRUE, total_budget |-> total_budget,
             total_spent |-> DefaultTotalSpent,
             alert_threshold |-> alert_threshold,
             custom_alert_percentage |-> custom_alert_percentage]]
    /\ UNCHANGED <<goals, contributions, budgetCategories, returned>>
    /\ LedgerUnchanged

\* a new line of BudgetCategoryInline: allocated_amount is validated,
\* spent_amount has no validator, (budget, category) is unique; Model.save()
\* is not overridden and the budget's row is not written
AddBudgetCategory(c, b, category, allocated_amount, spent_amount) ==
    /\ ~Exists(budgetCategories[c])
    /\ Exists(budgets[b])
    /\ AmountValid(allocated_amount)
    /\ \A d \in BudgetCategoryRows :
            ~(budgetCategories[d].budget = b /\ budgetCategories[d].category = category)
    /\ budgetCategories' = [budgetCategories EXCEPT ![c] =
            [exists |-> TRUE, budget |-> b, category |-> category,
             allocated_amount |-> allocated_amount, spent_amount |-> spent_amount]]
    /\ UNCHANGED <<goals, contributions, budgets, returned>>
    /\ LedgerUnchanged

\* spent_amount edited on a line of BudgetCategoryInline
ChangeBudgetCategory(c, spent_amount) ==
    /\ Exists(budgetCategories[c])
    /\ budgetCategories' = [budgetCategories EXCEPT ![c].spent_amount = spent_amount]
    /\ UNCHANGED <<goals, contributions, budgets, returned>>
    /\ LedgerUnchanged

\* a line of BudgetCategoryInline ticked for deletion
DeleteBudgetCategory(c) ==
    /\ Exists(budgetCategories[c])
    /\ budgetCategories' = [budgetCategories EXCEPT ![c] = NoRow]
    /\ UNCHANGED <<goals, contributions, budgets, returned>>
    /\ LedgerUnchanged

\* a percentage as the quotient num / den of two integers, den > 0
Ratio(num, den) == [num |-> num, den |-> den]
\* percentage >= n
AtLeast(percentage, n) == percentage.num >= n * percentage.den

\* a percentage that is the bare quotient
Budget_get_spending_percentage_Quotient(self) ==
    IF self.total_budget = 0 THEN Ratio(0, 1)
    ELSE Ratio(self.total_spent, self.total_budget)

\* Budget.get_spending_percentage
Budget_get_spending_percentage(self) ==
    IF self.total_budget = 0 THEN Ratio(0, 1)
    ELSE Ratio(self.total_spent * 100, self.total_budget)

\* BudgetCategory.get_spending_percentage
BudgetCategory_get_spending_percentage(self) ==
    IF self.allocated_amount = 0 THEN Ratio(0, 1)
    ELSE Ratio(self.spent_amount * 100, self.allocated_amount)

\* a budget that counts as over when it is spent exactly
Budget_is_over_budget_OrEqual(self) == self.total_spent >= self.total_budget

\* Budget.is_over_budget
Budget_is_over_budget(self) == self.total_spent > self.total_budget

\* what a call gave: a value, or an exception raised
Returns(bool) == [raised |-> FALSE, bool |-> bool]
Raises == [raised |-> TRUE, bool |-> FALSE]

\* Budget.should_alert; the comparison of a Decimal with None raises TypeError
Budget_should_alert(self) ==
    LET percentage == Budget_get_spending_percentage(self)
    IN  IF self.alert_threshold = "80_percent" THEN Returns(AtLeast(percentage, 80))
        ELSE IF self.alert_threshold = "90_percent" THEN Returns(AtLeast(percentage, 90))
        ELSE IF self.alert_threshold = "100_percent" THEN Returns(AtLeast(percentage, 100))
        ELSE IF self.alert_threshold = "custom"
             THEN IF self.custom_alert_percentage.null
                  THEN Raises
                  ELSE Returns(AtLeast(percentage, self.custom_alert_percentage.value))
        ELSE Returns(FALSE)

\* a call of a method leaves every row alone
CallOnly ==
    /\ UNCHANGED <<goals, contributions, budgets, budgetCategories>>
    /\ LedgerUnchanged

\* budget.should_alert() is called
ShouldAlert(b) ==
    /\ Exists(budgets[b])
    /\ LET r == Budget_should_alert(budgets[b])
       IN  returned' = [NoResult EXCEPT !.fn = "should_alert", !.id = b,
                                        !.raised = r.raised, !.bool = r.bool]
    /\ CallOnly

\* budget.get_spending_percentage() is called
GetSpendingPercentage(b) ==
    /\ Exists(budgets[b])
    /\ LET r == Budget_get_spending_percentage(budgets[b])
       IN  returned' = [NoResult EXCEPT !.fn = "get_spending_percentage", !.id = b,
                                        !.num = r.num, !.den = r.den]
    /\ CallOnly

\* budget.is_over_budget() is called
IsOverBudget(b) ==
    /\ Exists(budgets[b])
    /\ returned' = [NoResult EXCEPT !.fn = "is_over_budget", !.id = b,
                                    !.bool = Budget_is_over_budget(budgets[b])]
    /\ CallOnly

\* budget_category.get_spending_percentage() is called
CategoryGetSpendingPercentage(c) ==
    /\ Exists(budgetCategories[c])
    /\ LET r == BudgetCategory_get_spending_percentage(budgetCategories[c])
       IN  returned' = [NoResult EXCEPT !.fn = "category_get_spending_percentage", !.id = c,
                                        !.num = r.num, !.den = r.den]
    /\ CallOnly

PlanInit ==
    /\ accounts = <<>>
    /\ transactions = <<>>
    /\ transfers = <<>>
    /\ nextTx = 0
    /\ nextTransfer = 0
    /\ resaves = 0
    /\ last = NoRequest
    /\ pc = <<>>
    /\ local = <<>>
    /\ goals = [g \in GoalIds |-> NoRow]
    /\ contributions = [i \in ContributionIds |-> NoRow]
    /\ budgets = [b \in BudgetIds |-> NoRow]
    /\ budgetCategories = [c \in BudgetCategoryIds |-> NoRow]
    /\ returned = NoResult
    /\ categories = <<>>
    /\ templates = <<>>

PlanNext ==
    \/ \E g \in GoalIds, target \in TargetAmounts : CreateGoal(g, target)
    \/ \E i \in ContributionIds, g \in GoalIds, amount \in ContributionAmounts :
            AddContribution(i, g, amount)
    \/ \E i \in ContributionIds : DeleteContribution(i)
    \/ \E b \in BudgetIds, total \in TotalBudgets, th \in ALERT_TYPES, cp \in CustomPercentages :
            CreateBudget(b, total, th, cp)
    \/ \E c \in BudgetCategoryIds, b \in BudgetIds, cat \in Categories,
          allocated \in AllocatedAmounts, spent \in SpentAmounts :
            AddBudgetCategory(c, b, cat, allocated, spent)
    \/ \E c \in BudgetCategoryIds, spent \in SpentAmounts : ChangeBudgetCategory(c, spent)
    \/ \E c \in BudgetCategoryIds : DeleteBudgetCategory(c)
    \/ \E b \in BudgetIds : ShouldAlert(b)

PlanSpec == PlanInit /\ [][PlanNext]_vars

\* the methods of a budget and of a budget category as functions of the row:
\* the row's columns are drawn from the values the columns can hold (a
\* validator runs in a form, not in Model.save(), so 0 is among them; small
\* amounts keep the products of the percentages within TLC's integers), then
\* the methods are called
DrawnTotalBudgets == {0, 1000}
DrawnTotalSpent == {0, 800, 900, 950, 1000, 1200}
DrawnAllocated == {0, 300}
DrawnSpent == {0, 150, 450}

DrawnBudgets ==
    [exists : {TRUE}, total_budget : DrawnTotalBudgets, total_spent : DrawnTotalSpent,
     alert_threshold : ALERT_TYPES, custom_alert_percentage : CustomPercentages]

DrawnBudgetCategories ==
    [exists : {TRUE}, budget : BudgetIds, category : Categories,
     allocated_amount : DrawnAllocated, spent_amount : DrawnSpent]

QueryInit ==
    /\ accounts = <<>>
    /\ transactions = <<>>
    /\ transfers = <<>>
    /\ nextTx = 0
    /\ nextTransfer = 0
    /\ resaves = 0
    /\ last = NoRequest
    /\ pc = <<>>
    /\ local = <<>>
    /\ goals = <<>>
    /\ contributions = <<>>
    /\ budgets \in [BudgetIds -> DrawnBudgets]
    /\ budgetCategories \in [BudgetCategoryIds -> DrawnBudgetCategories]
    /\ \A c, d \in BudgetCategoryIds :
            (c # d /\ budgetCategories[c].budget = budgetCategories[d].budget)
                => budgetCategories[c].category # budgetCategories[d].category
    /\ returned = NoResult
    /\ categories = <<>>
    /\ templates = <<>>

QueryNext ==
    \/ \E b \in BudgetIds : ShouldAlert(b)
    \/ \E b \in BudgetIds : GetSpendingPercentage(b)
    \/ \E b \in BudgetIds : IsOverBudget(b)
    \/ \E c \in BudgetCategoryIds : CategoryGetSpendingPercentage(c)

QuerySpec == QueryInit /\ [][QueryNext]_vars

\* a progress percentage that stops at 100
FinancialGoal_get_progress_percentage_Clamped(self) ==
    IF self.target_amount = 0 THEN Ratio(0, 1)
    ELSE IF self.current_amount > self.target_amount THEN Ratio(100, 1)
    ELSE Ratio(self.current_amount * 100, self.target_amount)

\* FinancialGoal.get_progress_percentage
FinancialGoal_get_progress_percentage(self) ==
    IF self.target_amount = 0 THEN Ratio(0, 1)
    ELSE Ratio(self.current_amount * 100, self.target_amount)

\* FinancialGoal.get_remaining_amount
FinancialGoal_get_remaining_amount(self) == self.target_amount - self.current_amount

\* FinancialGoal.get_days_remaining: dates are day numbers
FinancialGoal_get_days_remaining(self, today) == self.target_date - today

\* 30.44, the days of a month, in hundredths of a day
DaysPerMonthScaled == 3044
DayScale == 100

\* what a call gave: a quotient, or an exception raised
ReturnsNumber(num, den) == [raised |-> FALSE, num |-> num, den |-> den]
RaisesNumber == [raised |-> TRUE, num |-> 0, den |-> 1]

\* FinancialGoal.get_monthly_progress_needed. months_remaining is a float;
\* max(months_remaining, 1) is the int 1 only when 1 > months_remaining, and
\* the float otherwise, and a Decimal divided by a float raises TypeError
FinancialGoal_get_monthly_progress_needed(self, today) ==
    LET days_remaining == FinancialGoal_get_days_remaining(self, today)
        remaining == FinancialGoal_get_remaining_amount(self)
    IN  IF days_remaining <= 0 THEN ReturnsNumber(remaining, 1)
        ELSE IF days_remaining * DayScale < DaysPerMonthScaled
             THEN ReturnsNumber(remaining, 1)
             ELSE RaisesNumber

\* goal.get_progress_percentage() is called
GetProgressPercentage(g) ==
    /\ Exists(goals[g])
    /\ LET r == FinancialGoal_get_progress_percentage(goals[g])
       IN  returned' = [NoResult EXCEPT !.fn = "get_progress_percentage", !.id = g,
                                        !.num = r.num, !.den = r.den]
    /\ CallOnly

\* goal.get_remaining_amount() is called
GetRemainingAmount(g) ==
    /\ Exists(goals[g])
    /\ returned' = [NoResult EXCEPT !.fn = "get_remaining_amount", !.id = g,
                                    !.num = FinancialGoal_get_remaining_amount(goals[g])]
    /\ CallOnly

\* goal.get_monthly_progress_needed() is called on the day `today`
GetMonthlyProgressNeeded(g, today) ==
    /\ Exists(goals[g])
    /\ LET r == FinancialGoal_get_monthly_progress_needed(goals[g], today)
       IN  returned' = [NoResult EXCEPT !.fn = "get_monthly_progress_needed", !.id = g,
                                        !.raised = r.raised, !.num = r.num, !.den = r.den,
                                        !.today = today]
    /\ CallOnly

\* the methods of a goal as functions of the row: the row's columns are drawn
\* from the values the columns can hold, then the methods are called
DrawnTargetAmounts == {0, 500}
DrawnCurrentAmounts == {0, 125, 500, 750}
DrawnTargetDates == {0, 20, 40, 100}
Todays == {10, 20}

DrawnGoals ==
    [exists : {TRUE}, target_amount : DrawnTargetAmounts,
     current_amount : DrawnCurrentAmounts, target_date : DrawnTargetDates]

GoalQueryInit ==
    /\ accounts = <<>>
    /\ transactions = <<>>
    /\ transfers = <<>>
    /\ nextTx = 0
    /\ nextTransfer = 0
    /\ resaves = 0
    /\ last = NoRequest
    /\ pc = <<>>
    /\ local = <<>>
    /\ goals \in [GoalIds -> DrawnGoals]
    /\ contributions = <<>>
    /\ budgets = <<>>
    /\ budgetCategories = <<>>
    /\ returned = NoResult
    /\ categories = <<>>
    /\ templates = <<>>

GoalQueryNext ==
    \/ \E g \in GoalIds : GetProgressPercentage(g)
    \/ \E g \in GoalIds : GetRemainingAmount(g)
    \/ \E g \in GoalIds, today \in Todays : GetMonthlyProgressNeeded(g, today)

GoalQuerySpec == GoalQueryInit /\ [][GoalQueryNext]_vars

---------------------------------------------------------------------------
(* Categories and their templates *)

Owners == {"u1", "u2"}
CategoryIds == 1..MaxCategories
TemplateIds == 1..MaxTemplates
CategoryNames == {"food", "rent"}

\* parent is nullable: the id 0 stands for NULL
NoParent == 0

CategoryRows == {c \in DOMAIN categories : Exists(categories[c])}

\* the categories a parent field may name: PrimaryKeyRelatedField and the
\* ModelChoiceField of the admin validate against Category.objects.all()
ParentChoices == {NoParent} \cup CategoryRows

\* the slot of the next Category row (AutoField)
NextCategory == Cardinality(CategoryRows) + 1

\* unique_together = ['user', 'name'], enforced by the database
CategoryNameTaken(u, name) ==
    \E c \in CategoryRows : categories[c].user = u /\ categories[c].name = name

\* the requests on categories leave everything else alone
CategoriesOnly ==
    UNCHANGED <<accounts, transactions, transfers, nextTx, nextTransfer, resaves, pc, local,
                goals, contributions, budgets, budgetCategories, returned>>

\* CategoryViewSet.create: CategoryCreateSerializer has no user field, so the
\* uniqueness of (user, name) is left to the database
CreateCategory(u, name, parent) ==
    /\ NextCategory \in CategoryIds
    /\ parent \in ParentChoices
    /\ IF CategoryNameTaken(u, name)
       THEN /\ last' = Request("create_category", "IntegrityError", 0, 0)
            /\ UNCHANGED categories
       ELSE /\ categories' = [categories EXCEPT ![NextCategory] =
                    [exists |-> TRUE, user |-> u, name |-> name, parent |-> parent]]
            /\ last' = Request("create_category", "ok", 0, NextCategory)
    /\ UNCHANGED templates
    /\ CategoriesOnly

\* CategoryViewSet.partial_update of parent: the row is looked up among the
\* user's own, CategorySerializer validates parent as a primary key and no more
UpdateCategoryParent(u, c, parent) ==
    /\ Exists(categories[c])
    /\ categories[c].user = u
    /\ parent \in ParentChoices
    /\ categories' = [categories EXCEPT ![c].parent = parent]
    /\ last' = Request("update_category", "ok", 0, c)
    /\ UNCHANGED templates
    /\ CategoriesOnly

\* CategoryAdmin's change form: get_form filters with pk__not, which is no
\* lookup, when the row has a parent (FieldError); for a row without parent
\* the form is built and parent is saved as given
AdminChangeCategory(c, parent) ==
    /\ Exists(categories[c])
    /\ parent \in ParentChoices
    /\ IF categories[c].parent # NoParent
       THEN /\ last' = Request("admin_change_category", "FieldError", 0, c)
            /\ UNCHANGED categories
       ELSE /\ categories' = [categories EXCEPT ![c].parent = parent]
            /\ last' = Request("admin_change_category", "ok", 0, c)
    /\ UNCHANGED templates
    /\ CategoriesOnly

\* the parent apply_template finds: the user's category named parent_name
TemplateParent(u, t) ==
    LET found == {c \in CategoryRows :
                    categories[c].user = u /\ categories[c].name = templates[t].parent_name}
    IN  IF found = {} THEN NoParent ELSE CHOOSE c \in found : TRUE

\* CategoryTemplateViewSet.apply_template: the parent is looked up, usage_count
\* is incremented in the database (its own committed statement), then the
\* category is created; the create fails on a name the user already has
ApplyTemplate(u, t) ==
    /\ templates[t].usage_count < MaxApplications
    /\ templates' = [templates EXCEPT ![t].usage_count = @ + 1]
    /\ IF CategoryNameTaken(u, templates[t].name)
       THEN /\ last' = Request("apply_template", "IntegrityError", 0, t)
            /\ UNCHANGED categories
       ELSE /\ NextCategory \in CategoryIds
            /\ categories' = [categories EXCEPT ![NextCategory] =
                    [exists |-> TRUE, user |-> u, name |-> templates[t].name,
                     parent |-> TemplateParent(u, t)]]
            /\ last' = Request("apply_template", "ok", 0, t)
    /\ CategoriesOnly

\* no category yet, and the public templates the admin has entered
CategoryInit ==
    /\ accounts = <<>>
    /\ transactions = <<>>
    /\ transfers = <<>>
    /\ nextTx = 0
    /\ nextTransfer = 0
    /\ resaves = 0
    /\ last = NoRequest
    /\ pc = <<>>
    /\ local = <<>>
    /\ goals = <<>>
    /\ contributions = <<>>
    /\ budgets = <<>>
    /\ budgetCategories = <<>>
    /\ returned = NoResult
    /\ categories = [c \in CategoryIds |-> NoRow]
    /\ templates = [t \in TemplateIds |->
            [name |-> "food", parent_name |-> "rent", usage_count |-> 0]]

CategoryNext ==
    \/ \E u \in Owners, name \in CategoryNames, parent \in {NoParent} \cup CategoryIds :
            CreateCategory(u, name, parent)
    \/ \E u \in Owners, c \in CategoryIds, parent \in {NoParent} \cup CategoryIds :
            UpdateCategoryParent(u, c, parent)
    \/ \E c \in CategoryIds, parent \in {NoParent} \cup CategoryIds :
            AdminChangeCategory(c, parent)
    \/ \E u \in Owners, t \in TemplateIds : ApplyTemplate(u, t)

CategorySpec == CategoryInit /\ [][CategoryNext]_vars

\* balances made by saves alone, then recalculated: the two accounts of
\* EditInit, whose current_balance starts at their initial_balance
RecalcNext ==
    \/ \E a \in AccountIds, amount \in Amounts, ty \in TRANSACTION_TYPES, st \in STATUS_CHOICES :
            RecordTransaction(a, amount, ty, st)
    \/ \E u \in Users, f \in AccountIds, t \in AccountIds, amount \in Amounts,
          r \in Rates, c \in SuppliedConverted : CreateTransfer(u, f, t, amount, r, c)
    \/ \E a \in AccountIds : RecalculateBalances(a)

RecalcSpec == EditInit /\ [][RecalcNext]_vars

---------------------------------------------------------------------------
(* The accounts API with two users *)

AccountNames == {"cash", "bank"}

\* the slot of the next Account row (AutoField)
NextAccount == Cardinality(AccountRows) + 1

\* a validate_name that looks at the accounts of every owner
AccountNameTaken_AnyOwner(u, name, instance) ==
    \E b \in AccountRows \ {instance} : accounts[b].name = name

\* AccountSerializer.validate_name: another account of the user has the name;
\* instance is the row being updated, 0 on a create
AccountNameTaken(u, name, instance) ==
    \E b \in AccountRows \ {instance} : accounts[b].owner = u /\ accounts[b].name = name

\* AccountViewSet.get_queryset
AccountQueryset(u) == {a \in AccountRows : accounts[a].owner = u}

\* AccountTransferViewSet.get_queryset: from_account or to_account is the user's
TransferQueryset(u) ==
    {i \in TransferRows :
        \/ transfers[i].from_account \in AccountQueryset(u)
        \/ transfers[i].to_account \in AccountQueryset(u)}

\* AccountViewSet.create with its name: validate_name, then perform_create;
\* current_balance is read-only and gets the field's default
ApiCreateAccount(u, name, initial_balance) ==
    /\ NextAccount \in AccountIds
    /\ IF AccountNameTaken(u, name, 0)
       THEN /\ last' = [Request("create_account", "ValidationError", 0, 0)
                            EXCEPT !.user = u, !.name = name]
            /\ UNCHANGED accounts
       ELSE /\ accounts' = [accounts EXCEPT ![NextAccount] =
                    [exists |-> TRUE, owner |-> u, name |-> name,
                     initial_balance |-> initial_balance,
                     current_balance |-> DefaultBalance]]
            /\ last' = [Request("create_account", "ok", 0, NextAccount)
                            EXCEPT !.user = u, !.name = name]
    /\ UNCHANGED <<transactions, transfers, nextTx, nextTransfer, resaves>>
    /\ Sequential

\* AccountViewSet.update of name and initial_balance: the row is looked up
\* among the user's own, validate_name leaves the row itself out
ApiUpdateAccount(u, a, name, initial_balance) ==
    /\ a \in AccountQueryset(u)
    /\ IF AccountNameTaken(u, name, a)
       THEN /\ last' = [Request("update_account", "ValidationError", 0, a)
                            EXCEPT !.user = u, !.name = name]
            /\ UNCHANGED accounts
       ELSE /\ accounts' = [accounts EXCEPT ![a].name = name,
                                            ![a].initial_balance = initial_balance]
            /\ last' = [Request("update_account", "ok", 0, a)
                            EXCEPT !.user = u, !.name = name]
    /\ UNCHANGED <<transactions, transfers, nextTx, nextTransfer, resaves>>
    /\ Sequential

\* a list request leaves every row alone
ListOnly ==
    UNCHANGED <<accounts, transactions, transfers, nextTx, nextTransfer, resaves, last, pc, local,
                goals, contributions, budgets, budgetCategories, categories, templates>>

\* AccountViewSet.list
ListAccounts(u) ==
    /\ returned' = [NoResult EXCEPT !.fn = "list_accounts", !.user = u,
                                    !.rows = AccountQueryset(u)]
    /\ ListOnly

\* AccountTransferViewSet.list; retrieve, update and destroy look the row up in
\* the same queryset
ListTransfers(u) ==
    /\ returned' = [NoResult EXCEPT !.fn = "list_transfers", !.user = u,
                                    !.rows = TransferQueryset(u)]
    /\ ListOnly

AccessInit ==
    /\ accounts = [a \in AccountIds |-> NoRow]
    /\ transactions = <<>>
    /\ transfers = [i \in TransferIds |-> NoRow]
    /\ nextTx = 0
    /\ nextTransfer = 0
    /\ resaves = 0
    /\ last = NoRequest
    /\ pc = <<>>
    /\ local = <<>>
    /\ NoPlan

AccessNext ==
    \/ \E u \in Owners, name \in AccountNames, b \in InitialBalances :
            ApiCreateAccount(u, name, b)
    \/ \E u \in Owners, a \in AccountIds, name \in AccountNames, b \in InitialBalances :
            ApiUpdateAccount(u, a, name, b)
    \/ \E u \in Owners, f \in AccountIds, t \in AccountIds, amount \in Amounts,
          r \in Rates, c \in SuppliedConverted : CreateTransfer(u, f, t, amount, r, c)
    \/ \E u \in Owners : ListAccounts(u)
    \/ \E u \in Owners : ListTransfers(u)

AccessSpec == AccessInit /\ [][AccessNext]_vars

---------------------------------------------------------------------------
(* Properties *)

RECURSIVE SumEffective(_)
\* the sum of effective_amount over a set of Transaction ids
SumEffective(ids) ==
    IF ids = {} THEN 0
    ELSE LET i == CHOOSE j \in ids : TRUE
         IN  transactions[i].effective_amount + SumEffective(ids \ {i})

\* what the transfer row i moved on account a: -amount out, +converted_amount in
TransferDelta(i, a) ==
    (IF transfers[i].from_account = a THEN -transfers[i].amount ELSE 0)
    + (IF transfers[i].to_account = a THEN transfers[i].converted_amount ELSE 0)

RECURSIVE SumTransferDeltas(_, _)
SumTransferDeltas(ids, a) ==
    IF ids = {} THEN 0
    ELSE LET i == CHOOSE j \in ids : TRUE
         IN  TransferDelta(i, a) + SumTransferDeltas(ids \ {i}, a)

CompletedOn(a) ==
    {i \in TxRows : transactions[i].account = a /\ transactions[i].status = "completed"}

\* C1: every account's current_balance is its initial_balance plus the
\* effective amounts of its completed transactions plus its transfer deltas.
LedgerInvariant ==
    \A a \in AccountRows :
        accounts[a].current_balance =
            accounts[a].initial_balance + SumEffective(CompletedOn(a))
            + SumTransferDeltas(TransferRows, a)

\* what the request of process p adds to account a, by the code's own arithmetic
RequestDelta(p, a) ==
    LET l == local[p]
    IN  IF l.kind = "transaction"
        THEN (IF l.account = a THEN update_balance(0, l.amount, l.transaction_type) ELSE 0)
        ELSE (IF l.account = a THEN -l.amount ELSE 0)
             + (IF l.to_account = a THEN ConvertedAmount(l.amount, l.exchange_rate) ELSE 0)

RECURSIVE SumRequestDeltas(_, _)
SumRequestDeltas(ps, a) ==
    IF ps = {} THEN 0
    ELSE LET p == CHOOSE q \in ps : TRUE
         IN  RequestDelta(p, a) + SumRequestDeltas(ps \ {p}, a)

\* C2: once all the requests that ran at once have finished their save(), every
\* account's balance holds the deltas of all of them: no update is lost.
NoLostUpdate ==
    (\A p \in Procs : pc[p] = "done") =>
        \A a \in AccountRows :
            accounts[a].current_balance = DefaultBalance + SumRequestDeltas(Procs, a)

\* process p is the only request that has started
Alone(p) == \A q \in Procs \ {p} : pc[q] = "idle"

\* C3: a Transaction.save that fails after the balance update leaves the
\* account's persisted current_balance at its value before the call.
TransactionSaveAtomic ==
    \A p \in Procs :
        (pc[p] = "failed" /\ local[p].kind = "transaction" /\ Alone(p)) =>
            accounts[local[p].account].current_balance = local[p].before

\* C4: an AccountTransfer.save that fails between two of its steps leaves both
\* balances at their values before the call: no leg without the other and the row.
TransferSaveAtomic ==
    \A p \in Procs :
        (pc[p] = "failed" /\ local[p].kind = "transfer" /\ Alone(p)) =>
            /\ accounts[local[p].account].current_balance = local[p].before
            /\ accounts[local[p].to_account].current_balance = local[p].to_before

\* C5: creating a transfer between two distinct accounts stores
\* converted_amount = amount * exchange_rate whatever converted_amount the
\* request carried, takes exactly amount from from_account and adds exactly
\* converted_amount to to_account.
TransferMovesConverted ==
    [][(last'.op = "transfer" /\ last'.result = "ok") =>
        LET t == transfers'[last'.id]
        IN  (t.from_account # t.to_account /\ t.exchange_rate > 0) =>
                /\ t.converted_amount * RateScale = t.amount * t.exchange_rate
                /\ accounts'[t.from_account].current_balance =
                        accounts[t.from_account].current_balance - t.amount
                /\ accounts'[t.to_account].current_balance =
                        accounts[t.to_account].current_balance + t.converted_amount]_vars

\* 50.00 at rate 0.90 from a balance of 70.00 to a balance of 0.00, the request
\* carrying another converted_amount: 45.00 stored, 20.00 and 45.00 left
TransferScenarioReached ==
    /\ last.op = "transfer" /\ last.result = "ok" /\ last.supplied = 99900
    /\ LET t == transfers[last.id]
       IN  /\ t.from_account # t.to_account
           /\ t.amount = 5000 /\ t.exchange_rate = 90 /\ t.converted_amount = 4500
           /\ accounts[t.from_account].current_balance = 2000
           /\ accounts[t.to_account].current_balance = 4500

\* C6: saving an already persisted Transaction or AccountTransfer again changes
\* no account's current_balance.
ResaveMovesNothing ==
    [][last'.op \in {"resave_transaction", "resave_transfer"} => accounts' = accounts]_vars

\* C7: recording a transaction changes its account's current_balance by the
\* transaction's effective_amount (a credit for income and transfer, a debit
\* for expense).
RecordMovesEffectiveAmount ==
    [][(last'.op = "record" /\ last'.result = "ok") =>
        LET t == transactions'[last'.id]
        IN  accounts'[t.account].current_balance =
                accounts[t.account].current_balance + t.effective_amount]_vars

\* C8: a request to record a transaction or to create a transfer whose amount
\* is <= 0 ends in a validation error, creates no row and changes no balance.
NonPositiveAmountRejected ==
    [][(last'.op \in {"record", "transfer"} /\ last'.amount <= 0) =>
        /\ last'.result = "ValidationError"
        /\ UNCHANGED <<accounts, transactions, transfers, nextTx, nextTransfer>>]_vars

\* a transfer of a non-positive amount was asked for, after a recorded
\* transaction had moved a balance, and was turned down
RejectedRequestReached ==
    /\ last.op = "transfer" /\ last.amount <= 0 /\ last.result = "ValidationError"
    /\ TxRows # {}
    /\ \E a \in AccountRows : accounts[a].current_balance # DefaultBalance

\* C9: no AccountTransfer row is persisted whose from_account and to_account
\* are the same account.
NoSelfTransfer ==
    \A i \in TransferRows : transfers[i].from_account # transfers[i].to_account

\* C10: the balance_after of a transaction that was just saved is the persisted
\* current_balance of its account, which its delta has just changed.
BalanceAfterIsNewBalance ==
    [][(last'.op = "record" /\ last'.result = "ok") =>
        LET t == transactions'[last'.id]
        IN  /\ t.balance_after = accounts'[t.account].current_balance
            /\ t.balance_after =
                    update_balance(accounts[t.account].current_balance,
                                   t.amount, t.transaction_type)]_vars

\* an expense of 30.00 on a balance of 100.00: 70.00 and 70.00
ExpenseScenarioReached ==
    /\ last.op = "record" /\ last.result = "ok"
    /\ LET t == transactions[last.id]
       IN  /\ t.transaction_type = "expense" /\ t.amount = 3000
           /\ accounts[t.account].initial_balance = 10000
           /\ accounts[t.account].current_balance = 7000
           /\ t.balance_after = 7000

\* C11: every stored transaction has effective_amount = -amount when its type
\* is expense and +amount when it is income or transfer, so negative for an
\* expense and positive otherwise, also after its type or amount was edited and
\* the row saved again.
EffectiveAmountFollowsType ==
    \A i \in TxRows :
        LET t == transactions[i]
        IN  IF t.transaction_type = "expense"
            THEN t.effective_amount = -t.amount /\ t.effective_amount < 0
            ELSE t.effective_amount = t.amount /\ t.effective_amount > 0

\* a row recorded as something else was edited to an expense of 50.00 and saved
EditedToExpenseReached ==
    /\ last.op = "change_transaction" /\ last.result = "ok"
    /\ LET t == transactions[last.id]
       IN  /\ t.transaction_type = "expense"
           /\ t.amount = 5000
           /\ t.effective_amount = -5000

\* C12: the balance_after of a persisted transaction never changes afterwards,
\* whatever is saved, recorded or transferred later.
BalanceAfterWrittenOnce ==
    [][\A i \in TxRows :
            Exists(transactions'[i]) =>
                transactions'[i].balance_after = transactions[i].balance_after]_vars

\* the two rows carry the same input
SameInput(t1, t2) ==
    /\ t1.account = t2.account
    /\ t1.amount = t2.amount
    /\ t1.transaction_type = t2.transaction_type
    /\ t1.status = t2.status

\* C13: recording is not idempotent: every accepted record request makes a new
\* row and moves the balance by the delta of its input, and when two requests
\* in a row carry the same input the second makes a second row with another
\* id, leaves the first row as it is and moves the balance by that delta again.
RecordTwiceMovesTwice ==
    [][(last'.op = "record" /\ last'.result = "ok") =>
        LET t2 == transactions'[last'.id]
            delta == update_balance(0, t2.amount, t2.transaction_type)
        IN  /\ last'.id \notin TxRows
            /\ accounts'[t2.account].current_balance =
                    accounts[t2.account].current_balance + delta
            /\ (/\ last.op = "record" /\ last.result = "ok"
                /\ SameInput(transactions[last.id], t2)) =>
                    /\ last'.id # last.id
                    /\ transactions'[last.id] = transactions[last.id]
                    /\ t2.balance_after = transactions[last.id].balance_after + delta
                    /\ delta # 0]_vars

\* an income of 30.00 recorded twice on a balance of 0.00: two rows, 60.00
RecordedTwiceReached ==
    /\ last.op = "record" /\ last.result = "ok" /\ resaves = 0
    /\ TxRows = {1, 2}
    /\ SameInput(transactions[1], transactions[2])
    /\ transactions[1].transaction_type = "income" /\ transactions[1].amount = 3000
    /\ transactions[1].balance_after = 3000
    /\ transactions[2].balance_after = 6000
    /\ accounts[transactions[1].account].current_balance = 6000

\* C14: the converted_amount of a persisted transfer never changes afterwards,
\* whatever is edited and saved later.
ConvertedAmountFixed ==
    [][\A i \in TransferRows :
            Exists(transfers'[i]) =>
                transfers'[i].converted_amount = transfers[i].converted_amount]_vars

\* the rows of a table that the step adds
Inserted(old, new) == {i \in DOMAIN old : ~Exists(old[i]) /\ Exists(new[i])}

RECURSIVE SumContributions(_)
\* the sum of amount over a set of GoalContribution ids
SumContributions(ids) ==
    IF ids = {} THEN 0
    ELSE LET i == CHOOSE j \in ids : TRUE
         IN  contributions[i].amount + SumContributions(ids \ {i})

\* C16: every goal's current_amount is the sum of the amounts of its
\* contributions.
CurrentAmountIsSum ==
    \A g \in GoalRows :
        goals[g].current_amount =
            SumContributions({i \in ContributionRows : contributions[i].goal = g})

RECURSIVE SumSpent(_)
\* the sum of spent_amount over a set of BudgetCategory ids
SumSpent(ids) ==
    IF ids = {} THEN 0
    ELSE LET c == CHOOSE d \in ids : TRUE
         IN  budgetCategories[c].spent_amount + SumSpent(ids \ {c})

\* C17: every budget's total_spent is the sum of spent_amount over its
\* BudgetCategory rows.
TotalSpentIsSum ==
    \A b \in BudgetRows :
        budgets[b].total_spent =
            SumSpent({c \in BudgetCategoryRows : budgetCategories[c].budget = b})

\* the threshold of a budget's alert_threshold, in percents
Threshold(self) ==
    CASE self.alert_threshold = "80_percent" -> 80
      [] self.alert_threshold = "90_percent" -> 90
      [] self.alert_threshold = "100_percent" -> 100
      [] self.alert_threshold = "custom" -> self.custom_alert_percentage.value
      [] OTHER -> 0

\* C18: a call of should_alert gives a boolean for every budget, true exactly
\* when the alert_threshold is not 'none' and total_spent / total_budget * 100
\* (0 for a total_budget of 0) has reached the threshold.
ShouldAlertAtThreshold ==
    returned.fn = "should_alert" =>
        LET b == budgets[returned.id]
        IN  /\ ~returned.raised
            /\ returned.bool =
                (/\ b.alert_threshold # "none"
                 /\ IF b.total_budget = 0
                    THEN 0 >= Threshold(b)
                    ELSE b.total_spent * 100 >= Threshold(b) * b.total_budget)

\* C19: get_spending_percentage gives 0 for a total_budget of 0 and
\* total_spent / total_budget * 100 otherwise; the method of BudgetCategory
\* gives the same over spent_amount and allocated_amount.
SpendingPercentageFormula ==
    /\ returned.fn = "get_spending_percentage" =>
        LET b == budgets[returned.id]
        IN  /\ returned.den > 0
            /\ IF b.total_budget = 0
               THEN returned.num = 0
               ELSE returned.num * b.total_budget = b.total_spent * 100 * returned.den
    /\ returned.fn = "category_get_spending_percentage" =>
        LET c == budgetCategories[returned.id]
        IN  /\ returned.den > 0
            /\ IF c.allocated_amount = 0
               THEN returned.num = 0
               ELSE returned.num * c.allocated_amount = c.spent_amount * 100 * returned.den

\* 9.50 spent of a budget of 10.00: 95 percent
NinetyFivePercentReached ==
    /\ returned.fn = "get_spending_percentage"
    /\ budgets[returned.id].total_budget = 1000
    /\ budgets[returned.id].total_spent = 950
    /\ returned.num = 95 * returned.den

\* C20: for a budget with total_budget > 0 the spending percentage is >= 0,
\* and is_over_budget is true exactly when total_spent > total_budget.
OverBudgetIsStrict ==
    \A b \in BudgetRows :
        budgets[b].total_budget > 0 =>
            /\ (returned.fn = "get_spending_percentage" /\ returned.id = b) =>
                    (returned.den > 0 /\ returned.num >= 0)
            /\ (returned.fn = "is_over_budget" /\ returned.id = b) =>
                    returned.bool = (budgets[b].total_spent > budgets[b].total_budget)

\* a budget of 10.00 with exactly 10.00 spent is not over budget
SpentExactlyReached ==
    /\ returned.fn = "is_over_budget"
    /\ budgets[returned.id].total_budget = 1000
    /\ budgets[returned.id].total_spent = 1000
    /\ ~returned.bool

\* C21: get_progress_percentage gives 0 for a target_amount of 0 and
\* current_amount / target_amount * 100 otherwise, above 100 when current_amount
\* is above target_amount; get_remaining_amount gives target_amount -
\* current_amount, negative in that case.
GoalProgressFormula ==
    /\ returned.fn = "get_progress_percentage" =>
        LET g == goals[returned.id]
        IN  /\ returned.den > 0
            /\ IF g.target_amount = 0
               THEN returned.num = 0
               ELSE /\ returned.num * g.target_amount = g.current_amount * 100 * returned.den
                    /\ g.current_amount > g.target_amount =>
                            returned.num > 100 * returned.den
    /\ returned.fn = "get_remaining_amount" =>
        LET g == goals[returned.id]
        IN  /\ returned.num = g.target_amount - g.current_amount
            /\ g.current_amount > g.target_amount => returned.num < 0

\* 7.50 saved for a target of 5.00: 150 percent
OverTargetReached ==
    /\ returned.fn = "get_progress_percentage"
    /\ goals[returned.id].target_amount = 500
    /\ goals[returned.id].current_amount = 750
    /\ returned.num = 150 * returned.den

\* C22: get_monthly_progress_needed gives a number for every target date: the
\* whole remaining amount when the target date is past, today or less than a
\* month away, and otherwise the remaining amount divided by the months left,
\* which is no more than the remaining amount when that is not negative.
MonthlyProgressNeededIsNumber ==
    returned.fn = "get_monthly_progress_needed" =>
        LET g == goals[returned.id]
            remaining == g.target_amount - g.current_amount
            days_remaining == g.target_date - returned.today
        IN  /\ ~returned.raised
            /\ returned.den > 0
            /\ IF days_remaining * DayScale <= DaysPerMonthScaled
               THEN returned.num = remaining * returned.den
               ELSE returned.num * days_remaining * DayScale =
                        remaining * DaysPerMonthScaled * returned.den
            /\ remaining >= 0 => returned.num <= remaining * returned.den

RECURSIVE ReachesRoot(_, _)
\* following parent from c comes to a row without parent within n steps
ReachesRoot(c, n) ==
    IF categories[c].parent = NoParent THEN TRUE
    ELSE IF n = 0 THEN FALSE
    ELSE ReachesRoot(categories[c].parent, n - 1)

\* C23: the parent relation of the categories is acyclic: from every category
\* the parent links come to a root, so get_full_path terminates.
CategoryParentAcyclic ==
    \A c \in CategoryRows : ReachesRoot(c, Cardinality(CategoryRows))

\* C30: an application of a template that fails leaves the template's
\* usage_count as it was, and one that succeeds adds exactly one.
UsageCountsSuccesses ==
    [][last'.op = "apply_template" =>
        \A t \in TemplateIds :
            templates'[t].usage_count =
                templates[t].usage_count
                + (IF last'.id = t /\ last'.result = "ok" THEN 1 ELSE 0)]_vars

\* C24: no transfer row names an account that the user who created the
\* transfer does not own.
NoCrossUserTransfer ==
    \A i \in TransferRows :
        /\ accounts[transfers[i].from_account].owner = transfers[i].user
        /\ accounts[transfers[i].to_account].owner = transfers[i].user

\* C25: a create or an update that gives an account a name another account of
\* the same owner has ends in a validation error and changes nothing; any other
\* name (one of another owner, the account's own) is accepted and stored; after
\* the request no two accounts have the same owner and name.
AccountNameUniquePerOwner ==
    [][(last'.op \in {"create_account", "update_account"}) =>
        LET taken == \E b \in AccountRows \ {last'.id} :
                        accounts[b].owner = last'.user /\ accounts[b].name = last'.name
        IN  /\ taken => (last'.result = "ValidationError" /\ accounts' = accounts)
            /\ ~taken => /\ last'.result = "ok"
                         /\ accounts'[last'.id].name = last'.name
                         /\ accounts'[last'.id].owner = last'.user
            /\ \A a, b \in AccountIds :
                    (/\ Exists(accounts'[a]) /\ Exists(accounts'[b]) /\ a # b
                     /\ accounts'[a].owner = accounts'[b].owner)
                        => accounts'[a].name # accounts'[b].name]_vars

\* a user with two accounts asked to give one the name of the other and was
\* turned down
RenameRejectedReached ==
    /\ last.op = "update_account" /\ last.result = "ValidationError"
    /\ \E a, b \in AccountRows :
            /\ a # b /\ a = last.id
            /\ accounts[a].owner = last.user /\ accounts[b].owner = last.user
            /\ accounts[b].name = last.name /\ accounts[a].name # last.name

\* C26: the accounts listed for a user are that user's, and the transfers
\* listed for a user have both of their accounts owned by that user.
ListsScopedToUser ==
    /\ returned.fn = "list_accounts" =>
            \A a \in returned.rows : accounts[a].owner = returned.user
    /\ returned.fn = "list_transfers" =>
            \A i \in returned.rows :
                /\ accounts[transfers[i].from_account].owner = returned.user
                /\ accounts[transfers[i].to_account].owner = returned.user

\* C28: an account that was just created has current_balance = initial_balance.
NewAccountBalanceIsInitial ==
    [][(last'.op = "create_account" /\ last'.result = "ok") =>
        accounts'[last'.id].current_balance = accounts'[last'.id].initial_balance]_vars

\* C27: recording a transaction that is not completed changes no balance, and
\* a save that takes a transaction from completed to another status takes its
\* effective_amount back out of the account's balance.
OnlyCompletedMovesMoney ==
    [][/\ (last'.op = "record" /\ last'.result = "ok"
           /\ transactions'[last'.id].status # "completed") => accounts' = accounts
       /\ (last'.op = "resave_transaction"
           /\ transactions[last'.id].status = "completed"
           /\ transactions'[last'.id].status # "completed") =>
                LET t == transactions[last'.id]
                IN  accounts'[t.account].current_balance =
                        accounts[t.account].current_balance - t.effective_amount]_vars

\* C29: recalculate_balances, run on an account whose balance was made by
\* transaction saves and transfer saves from its initial_balance, changes no
\* balance (and so gives the same when run again).
RecalculatePreservesLedger ==
    [][last'.op = "recalculate_balances" => accounts' = accounts]_vars

====
